---- MODULE Spec2Model ----
(***************************************************************************)
(* The hardware-catalog pipeline of scripts/convert_to_json.py (Extractor) *)
(* and scripts/validate_data.py (Validator).                               *)
(*                                                                         *)
(* Python objects are records [t, n, s]: t is the kind ("none", "nan",     *)
(* "num", "str", "raise"), n the number, s the characters of a string.     *)
(* Capacities are counted in thousandths of a terabyte, so that the /1000  *)
(* of a "GB" capacity stays an integer.                                    *)
(***************************************************************************)
EXTENDS Integers, Sequences, FiniteSets, TLC

VARIABLES
    workbook,   \* 'WIP Recommended HW Platforms.xlsx': [exists, sheets]
    csv,        \* data/<category>.csv, per category: [exists, text]
    docData,    \* data/hardware_specs.json: [exists, parses, doc]
    docPublic,  \* public/data/hardware_specs.json: [exists, parses, doc, size]
    ext,        \* what the last Extractor run did
    val         \* what the Validator run on the files as they are now did

vars == <<workbook, csv, docData, docPublic, ext, val>>

---------------------------------------------------------------------------
(* Bounds *)

\* rows of the sheet that a workbook varies
MaxRows == 2
\* rows lacking one field that follow the complete row of a padded sheet
MaxPad == 9
\* records of the list that a hand-made document varies
MaxRecords == 2
\* rows of a sheet whose rows differ in their preference rank only
MaxRanked == 3

---------------------------------------------------------------------------
(* Python values *)

None == [t |-> "none", n |-> 0, s |-> <<>>]
NaN == [t |-> "nan", n |-> 0, s |-> <<>>]
ValueError == [t |-> "raise", n |-> 0, s |-> <<>>]
TypeError == [t |-> "raise", n |-> 1, s |-> <<>>]
Num(k) == [t |-> "num", n |-> k, s |-> <<>>]
Str(cs) == [t |-> "str", n |-> 0, s |-> cs]

\* bool(v): None, 0 and '' are false; NaN is a non-zero float, hence true
Truthy(v) ==
    CASE v.t = "none" -> FALSE
      [] v.t = "num" -> v.n # 0
      [] v.t = "str" -> v.s # <<>>
      [] OTHER -> TRUE

\* a or b
Or(a, b) == IF Truthy(a) THEN a ELSE b

\* pd.isna(v)
IsNa(v) == v.t \in {"none", "nan"}

\* item.get(col): None when the row has no such column
Get(item, col) == IF col \in DOMAIN item THEN item[col] ELSE None

---------------------------------------------------------------------------
(* Strings are sequences of characters *)

DigitChars == <<"0", "1", "2", "3", "4", "5", "6", "7", "8", "9">>

Digits == {DigitChars[i] : i \in 1..Len(DigitChars)}

DigitVal(c) == (CHOOSE i \in 1..Len(DigitChars) : DigitChars[i] = c) - 1

\* the characters in the order of their code points
Alphabet ==
    <<" ", "-", ".", "/", "0", "1", "2", "3", "4", "5", "6", "7", "8", "9",
      "A", "B", "C", "D", "E", "F", "G", "H", "I", "J", "K", "L", "M", "N", "O", "P", "Q",
      "R", "S", "T", "U", "V", "W", "X", "Y", "Z",
      "a", "b", "c", "d", "e", "f", "g", "h", "i", "j", "k", "l", "m", "n", "o", "p", "q",
      "r", "s", "t", "u", "v", "w", "x", "y", "z">>

Ord(c) == CHOOSE i \in 1..Len(Alphabet) : Alphabet[i] = c

Lower == {Alphabet[i] : i \in 41..66}

\* cs.upper()
Upper(cs) == [i \in 1..Len(cs) |-> IF cs[i] \in Lower THEN Alphabet[Ord(cs[i]) - 26] ELSE cs[i]]

\* str(v) of a cell: the text itself, 'nan' for NaN, the digits of a number
RECURSIVE NatStr(_)
NatStr(k) ==
    LET d == DigitChars[(k % 10) + 1]
    IN  IF k < 10 THEN <<d>> ELSE NatStr(k \div 10) \o <<d>>

PyStr(v) ==
    CASE v.t = "str" -> v.s
      [] v.t = "num" -> NatStr(v.n)
      [] v.t = "nan" -> <<"n", "a", "n">>
      [] OTHER -> <<"N", "o", "n", "e">>

\* a two-character unit occurs at position i of cs
UnitAt(cs, i, u) == i + 1 <= Len(cs) /\ cs[i] = u[1] /\ cs[i + 1] = u[2]

\* u in cs
Contains(cs, u) == \E i \in 1..Len(cs) : UnitAt(cs, i, u)

\* cs.replace(u, ''): every non-overlapping occurrence, left to right
RECURSIVE ReplaceFrom(_, _, _)
ReplaceFrom(cs, i, u) ==
    IF i > Len(cs) THEN <<>>
    ELSE IF UnitAt(cs, i, u) THEN ReplaceFrom(cs, i + 2, u)
    ELSE <<cs[i]>> \o ReplaceFrom(cs, i + 1, u)

Replace(cs, u) == ReplaceFrom(cs, 1, u)

\* cs.strip(), as float() and int() do before reading the numeral
RECURSIVE LStrip(_)
LStrip(cs) == IF cs # <<>> /\ Head(cs) = " " THEN LStrip(Tail(cs)) ELSE cs

RECURSIVE RStrip(_)
RStrip(cs) ==
    IF cs # <<>> /\ cs[Len(cs)] = " " THEN RStrip(SubSeq(cs, 1, Len(cs) - 1)) ELSE cs

Strip(cs) == LStrip(RStrip(cs))

RECURSIVE DecVal(_)
DecVal(cs) ==
    IF cs = <<>> THEN 0
    ELSE 10 * DecVal(SubSeq(cs, 1, Len(cs) - 1)) + DigitVal(cs[Len(cs)])

\* float(cs) and int(cs): the number, or ValueError when cs is no numeral
ParseNumeral(cs) ==
    LET body == Strip(cs)
    IN  IF body # <<>> /\ \A i \in 1..Len(body) : body[i] \in Digits
        THEN Num(DecVal(body))
        ELSE ValueError

---------------------------------------------------------------------------
(* convert_to_json.py: field parsers *)

TB == <<"T", "B">>
GB == <<"G", "B">>
PB == <<"P", "B">>

\* float(capacity_str.replace(unit, '')) scaled to thousandths of a terabyte;
\* the ValueError of float() is not caught
CapacityOf(cs, unit, factor) ==
    LET r == ParseNumeral(Replace(cs, unit))
    IN  IF r.t = "raise" THEN ValueError ELSE Num(r.n * factor)

parse_capacity(capacity_str) ==
    IF ~Truthy(capacity_str) \/ IsNa(capacity_str) THEN Num(0)
    ELSE LET cs == Upper(PyStr(capacity_str))
         IN  IF Contains(cs, TB) THEN CapacityOf(cs, TB, 1000)
             ELSE IF Contains(cs, GB) THEN CapacityOf(cs, GB, 1)
             ELSE IF Contains(cs, PB) THEN CapacityOf(cs, PB, 1000000)
             ELSE Num(0)

NoPower == [active |-> Num(0), idle |-> Num(0)]

\* the positions of '/' in cs
Slashes(cs) == {i \in 1..Len(cs) : cs[i] = "/"}

\* active, idle = power_str.split('/'), float() of each, inside try/except
parse_power(power_str) ==
    IF ~Truthy(power_str) \/ IsNa(power_str) THEN NoPower
    ELSE LET cs == PyStr(power_str)
         IN  IF Slashes(cs) = {} THEN NoPower
             ELSE IF Cardinality(Slashes(cs)) # 1 THEN NoPower
             ELSE LET k == CHOOSE i \in Slashes(cs) : TRUE
                      a == ParseNumeral(SubSeq(cs, 1, k - 1))
                      b == ParseNumeral(SubSeq(cs, k + 1, Len(cs)))
                  IN  IF a.t = "raise" \/ b.t = "raise" THEN NoPower
                      ELSE [active |-> a, idle |-> b]

\* the size parse of process_memory_data: int() inside try/except, no upper()
parse_size(size_str) ==
    IF Truthy(size_str) /\ Contains(PyStr(size_str), GB)
    THEN LET r == ParseNumeral(Replace(PyStr(size_str), GB))
         IN  IF r.t = "raise" THEN Num(0) ELSE r
    ELSE Num(0)

---------------------------------------------------------------------------
(* process_chassis_data: the size category *)

U1 == Str(<<"1", "U">>)
U2 == Str(<<"2", "U">>)

\* v <= k and v >= k of a drive-bay cell: every comparison with NaN is false
Le(v, k) == v.t = "num" /\ v.n <= k
Ge(v, k) == v.t = "num" /\ v.n >= k

\* the comparison of a string with a number raises TypeError
Unordered(v) == v.t = "str"

\* 'raise' when one of the comparisons that are evaluated raises
size_category(form_factor, drive_bays) ==
    IF form_factor = U1 /\ Truthy(drive_bays) /\ Unordered(drive_bays) THEN "raise"
    ELSE IF form_factor = U1 /\ Truthy(drive_bays) /\ Le(drive_bays, 8) THEN "small"
    ELSE IF form_factor = U2 THEN "large"
    ELSE IF Truthy(drive_bays) /\ Unordered(drive_bays) THEN "raise"
    ELSE IF Truthy(drive_bays) /\ Ge(drive_bays, 24) THEN "large"
    ELSE "medium"

\* processed[vendor][model] = {...} for one row that has vendor and model; the
\* descriptive fields (drive_types, cpu_sockets, memory_slots, memory_max, psu,
\* depth, vendor_link, notes) are copied the same way as preferred and left out
ChassisRecord(item) ==
    LET form_factor == Or(Get(item, "Form Factor"), Get(item, "Column_5"))
        drive_bays == Or(Get(item, "Drive Bay"), Get(item, "Column_6"))
    IN  [model |-> Or(Get(item, "Model"), Get(item, "Column_2")),
         form_factor |-> form_factor,
         drive_bays |-> drive_bays,
         size_category |-> size_category(form_factor, drive_bays),
         preferred |-> Or(Get(item, "Preferred"), Get(item, "Column_0"))]

ChassisVendor(item) == Or(Get(item, "Vendor"), Get(item, "Column_1"))
ChassisModel(item) == Or(Get(item, "Model"), Get(item, "Column_2"))

\* if not vendor or not model: continue
HasVendorModel(vendor, model) == Truthy(vendor) /\ Truthy(model)

\* the loop of process_chassis_data: vendor -> model -> record, a later row
\* of the same vendor and model replacing an earlier one
RECURSIVE ChassisLoop(_, _)
ChassisLoop(items, processed) ==
    IF items = <<>> THEN processed
    ELSE LET item == Head(items)
             vendor == ChassisVendor(item)
             model == ChassisModel(item)
             old == IF vendor \in DOMAIN processed THEN processed[vendor] ELSE <<>>
             new == [m \in DOMAIN old \cup {model} |->
                        IF m = model THEN ChassisRecord(item) ELSE old[m]]
         IN  IF ~HasVendorModel(vendor, model) THEN ChassisLoop(Tail(items), processed)
             ELSE ChassisLoop(Tail(items),
                      [v \in DOMAIN processed \cup {vendor} |->
                          IF v = vendor THEN new ELSE processed[v]])

process_chassis_data(chassis_data) == ChassisLoop(chassis_data, <<>>)

\* the TypeError of a comparison leaves process_chassis_data
ChassisRaises(chassis_data) ==
    \E i \in 1..Len(chassis_data) :
        /\ HasVendorModel(ChassisVendor(chassis_data[i]), ChassisModel(chassis_data[i]))
        /\ ChassisRecord(chassis_data[i]).size_category = "raise"

---------------------------------------------------------------------------
(* sorted(processed, key=...): list.sort of CPython on a list shorter than *)
(* 64, that is count_run, then binary insertion of the remaining elements. *)
(* Only < is asked of the keys; a key holding NaN is neither less than nor *)
(* equal to any key, and a string is not ordered with a number.            *)

\* s < t of two strings
RECURSIVE StrLt(_, _)
StrLt(s, t) ==
    IF t = <<>> THEN FALSE
    ELSE IF s = <<>> THEN TRUE
    ELSE IF Head(s) = Head(t) THEN StrLt(Tail(s), Tail(t))
    ELSE Ord(Head(s)) < Ord(Head(t))

\* x == y and x < y of two numbers or two strings
ValEq(x, y) ==
    \/ x.t = "num" /\ y.t = "num" /\ x.n = y.n
    \/ x.t = "str" /\ y.t = "str" /\ x.s = y.s

ValLt(x, y) ==
    \/ x.t = "num" /\ y.t = "num" /\ x.n < y.n
    \/ x.t = "str" /\ y.t = "str" /\ StrLt(x.s, y.s)

\* x < y raises TypeError: a string and a number
ValRaises(x, y) == (x.t = "str") # (y.t = "str")

\* a < b of two key pairs: the first component that is not equal decides
KeyLess(a, b) ==
    IF ~ValEq(a[1], b[1]) THEN ValLt(a[1], b[1])
    ELSE IF ~ValEq(a[2], b[2]) THEN ValLt(a[2], b[2])
    ELSE FALSE

KeyRaises(a, b) ==
    IF ~ValEq(a[1], b[1]) THEN ValRaises(a[1], b[1])
    ELSE IF ~ValEq(a[2], b[2]) THEN ValRaises(a[2], b[2])
    ELSE FALSE

\* count_run: the length of the run that starts the list, -1 when a
\* comparison raises
RECURSIVE RunEnd(_, _, _)
RunEnd(keys, i, descending) ==
    IF i > Len(keys) THEN i - 1
    ELSE IF KeyRaises(keys[i], keys[i - 1]) THEN -1
    ELSE IF KeyLess(keys[i], keys[i - 1]) = descending THEN RunEnd(keys, i + 1, descending)
    ELSE i - 1

Descending(keys) == Len(keys) >= 2 /\ KeyLess(keys[2], keys[1])

RunLen(keys) ==
    IF Len(keys) <= 1 THEN Len(keys)
    ELSE IF KeyRaises(keys[2], keys[1]) THEN -1
    ELSE RunEnd(keys, 3, Descending(keys))

\* binarysort: where the pivot goes among order[l..r-1], -1 when a
\* comparison raises
RECURSIVE InsertPos(_, _, _, _, _)
InsertPos(keys, order, pivot, l, r) ==
    IF l >= r THEN l
    ELSE LET p == l + ((r - l) \div 2)
         IN  IF KeyRaises(keys[pivot], keys[order[p]]) THEN -1
             ELSE IF KeyLess(keys[pivot], keys[order[p]])
             THEN InsertPos(keys, order, pivot, l, p)
             ELSE InsertPos(keys, order, pivot, p + 1, r)

\* what stands for the order when the sort raises
Raised == <<0>>

RECURSIVE BinarySort(_, _, _)
BinarySort(keys, order, start) ==
    IF start > Len(keys) THEN order
    ELSE LET at == InsertPos(keys, order, start, 1, Len(order) + 1)
         IN  IF at = -1 THEN Raised
             ELSE BinarySort(keys,
                     SubSeq(order, 1, at - 1) \o <<start>> \o SubSeq(order, at, Len(order)),
                     start + 1)

\* the order in which sorted() returns the elements whose keys are given
SortOrder(keys) ==
    LET n == RunLen(keys)
        run == [i \in 1..n |-> IF Descending(keys) THEN n + 1 - i ELSE i]
    IN  IF n = -1 THEN Raised ELSE BinarySort(keys, run, n + 1)

SortRaises(keys) == SortOrder(keys) = Raised

Sorted(processed, keys) ==
    LET order == SortOrder(keys)
    IN  [i \in 1..Len(processed) |-> processed[order[i]]]

\* -(x): the negation of a number, NaN for NaN, TypeError for a string
Neg(x) == IF x.t = "num" THEN Num(0 - x.n) ELSE IF x.t = "str" THEN TypeError ELSE x

---------------------------------------------------------------------------
(* process_storage_data, process_cpu_data, process_memory_data; fields      *)
(* copied unchanged from the row and read by nothing else are left out      *)

KeepVendorModel(data) ==
    SelectSeq(data, LAMBDA item : HasVendorModel(Get(item, "Vendor"), Get(item, "Model")))

StorageRecord(item) ==
    LET power_info == parse_power(Get(item, "Power Active / Idle (W)"))
    IN  [vendor |-> Get(item, "Vendor"),
         model |-> Get(item, "Model"),
         capacity_tb |-> parse_capacity(Get(item, "Capacity")),
         capacity_raw |-> Get(item, "Capacity"),
         seq_read_mbps |-> Get(item, "Seq Read 128K (MB/s)"),
         power_active_w |-> power_info.active,
         power_idle_w |-> power_info.idle,
         preferred |-> Or(Get(item, "Preferred"), Num(0))]

\* a key that takes the rank as it stands
StorageKeyByRank(x) == <<x.preferred, x.capacity_tb>>

StorageKey(x) == <<Or(x.preferred, Num(99)), x.capacity_tb>>

StorageList(storage_data) ==
    [i \in 1..Len(KeepVendorModel(storage_data)) |->
        StorageRecord(KeepVendorModel(storage_data)[i])]

StorageKeys(processed) == [i \in 1..Len(processed) |-> StorageKey(processed[i])]

\* parse_capacity raises inside the loop, or a comparison inside sorted(),
\* and nothing catches it
StorageRaises(storage_data) ==
    \/ \E i \in 1..Len(StorageList(storage_data)) :
            StorageList(storage_data)[i].capacity_tb.t = "raise"
    \/ SortRaises(StorageKeys(StorageList(storage_data)))

process_storage_data(storage_data) ==
    Sorted(StorageList(storage_data), StorageKeys(StorageList(storage_data)))

CpuRecord(item) ==
    [vendor |-> Get(item, "Vendor"),
     model |-> Get(item, "Model"),
     cores |-> Get(item, "Cores"),
     preferred |-> Or(Get(item, "Preferred"), Num(0))]

CpuKey(x) == <<Or(x.preferred, Num(99)), Neg(Or(x.cores, Num(0)))>>

CpuList(cpu_data) ==
    [i \in 1..Len(KeepVendorModel(cpu_data)) |-> CpuRecord(KeepVendorModel(cpu_data)[i])]

CpuKeys(processed) == [i \in 1..Len(processed) |-> CpuKey(processed[i])]

\* the key function raises on a core count that is a string, or a comparison
\* inside sorted() raises
CpuDataRaises(cpu_data) ==
    \/ \E i \in 1..Len(CpuList(cpu_data)) : CpuKey(CpuList(cpu_data)[i])[2].t = "raise"
    \/ SortRaises(CpuKeys(CpuList(cpu_data)))

process_cpu_data(cpu_data) == Sorted(CpuList(cpu_data), CpuKeys(CpuList(cpu_data)))

MemoryRecord(item) ==
    [vendor |-> Get(item, "Vendor"),
     model |-> Get(item, "Model"),
     size_gb |-> parse_size(IF "Size" \in DOMAIN item THEN item["Size"] ELSE Str(<<>>)),
     size_raw |-> Get(item, "Size"),
     preferred |-> Or(Get(item, "Preferred"), Num(0))]

MemoryKey(x) == <<Or(x.preferred, Num(99)), x.size_gb>>

MemoryList(memory_data) ==
    [i \in 1..Len(KeepVendorModel(memory_data)) |->
        MemoryRecord(KeepVendorModel(memory_data)[i])]

MemoryKeys(processed) == [i \in 1..Len(processed) |-> MemoryKey(processed[i])]

MemoryRaises(memory_data) == SortRaises(MemoryKeys(MemoryList(memory_data)))

process_memory_data(memory_data) ==
    Sorted(MemoryList(memory_data), MemoryKeys(MemoryList(memory_data)))

---------------------------------------------------------------------------
(* Files.  A sheet or a tabular file is a sequence of rows, each a function *)
(* from the column names to cells.  A blank cell of a sheet is NaN.         *)

Categories == {"chassis", "cpus", "memory", "storage_drives", "boot_drives"}

\* sheets_to_process and csv_files: the sheet behind each data/<category>.csv
SheetOf(cat) ==
    CASE cat = "chassis" -> "Chassis"
      [] cat = "cpus" -> "CPUs"
      [] cat = "memory" -> "Memory"
      [] cat = "storage_drives" -> "StorageDrive"
      [] cat = "boot_drives" -> "BootDrive"

Columns(rows) == IF rows = <<>> THEN {} ELSE DOMAIN rows[1]

Nulls(rows, c) == Cardinality({i \in 1..Len(rows) : IsNa(rows[i][c])})

\* a cleaning that drops a column as soon as half of it is blank
KeptColumnsHalf(df) == {c \in Columns(df) : 2 * Nulls(df, c) < Len(df)}

\* df.loc[:, df.isnull().mean() < 0.9]
KeptColumns(df) == {c \in Columns(df) : 10 * Nulls(df, c) < 9 * Len(df)}

clean_data(df) ==
    LET kept == KeptColumns(df)
        rows == SelectSeq(df, LAMBDA row : \E c \in kept : ~IsNa(row[c]))
    IN  [i \in 1..Len(rows) |->
            [c \in kept |-> IF IsNa(rows[i][c]) THEN None ELSE rows[i][c]]]

\* df.empty
Empty(df) == df = <<>> \/ Columns(df) = {}

\* df.to_csv: the text of each cell, nothing for None
CsvText(v) == IF IsNa(v) THEN <<>> ELSE PyStr(v)

to_csv(df) == [i \in 1..Len(df) |-> [c \in Columns(df) |-> CsvText(df[i][c])]]

IsNumeral(cs) == cs # <<>> /\ \A i \in 1..Len(cs) : cs[i] \in Digits

\* pd.read_csv: an empty field is NaN; a column whose other fields are all
\* numerals is a column of numbers, any other column a column of strings
NumericColumn(text, c) ==
    \A i \in 1..Len(text) : text[i][c] = <<>> \/ IsNumeral(text[i][c])

read_csv(text) ==
    [i \in 1..Len(text) |->
        [c \in Columns(text) |->
            IF text[i][c] = <<>> THEN NaN
            ELSE IF NumericColumn(text, c) THEN Num(DecVal(text[i][c]))
            ELSE Str(text[i][c])]]

NoFile == [exists |-> FALSE, text |-> <<>>]

\* df.to_csv(f'data/{csv_filename}') if not df.empty
SaveCsv(df, file) == IF Empty(df) THEN file ELSE [exists |-> TRUE, text |-> to_csv(df)]

\* convert_excel_to_csv: the tabular files after the loop over the sheets
convert_excel_to_csv(excel_data, files) ==
    [cat \in Categories |->
        IF SheetOf(cat) \in DOMAIN excel_data
        THEN SaveCsv(clean_data(excel_data[SheetOf(cat)]), files[cat])
        ELSE files[cat]]

load_csv_data(files) ==
    [cat \in Categories |-> IF files[cat].exists THEN read_csv(files[cat].text) ELSE <<>>]

---------------------------------------------------------------------------
(* create_hardware_json *)

\* efficiency is the fraction num/den
Scheme(d, p) ==
    [data_blocks |-> d, parity_blocks |-> p, total_blocks |-> d + p,
     efficiency |-> [num |-> d, den |-> d + p], min_drives |-> d + p,
     fault_tolerance |-> p]

EC83 == "EC 8:3"
EC82 == "EC 8:2"
EC84 == "EC 8:4"

ErasureCoding ==
    [default_scheme |-> EC83,
     schemes |-> [name \in {EC83, EC82, EC84} |->
                    CASE name = EC83 -> Scheme(8, 3)
                      [] name = EC82 -> Scheme(8, 2)
                      [] name = EC84 -> Scheme(8, 4)]]

Vendors(chassis_data) ==
    [vendor \in DOMAIN chassis_data |->
        [name |-> vendor,
         chassis |-> chassis_data[vendor],
         supported_sizes |->
            {chassis_data[vendor][m].size_category : m \in DOMAIN chassis_data[vendor]}]]

\* an exception leaves create_hardware_json
Raises(data) ==
    \/ ChassisRaises(data["chassis"])
    \/ StorageRaises(data["storage_drives"])
    \/ CpuDataRaises(data["cpus"])
    \/ MemoryRaises(data["memory"])

create_hardware_json(data) ==
    [metadata |-> {"version", "generated", "description"},
     vendors |-> Vendors(process_chassis_data(data["chassis"])),
     storage_drives |-> process_storage_data(data["storage_drives"]),
     cpus |-> process_cpu_data(data["cpus"]),
     memory |-> process_memory_data(data["memory"]),
     boot_drives |-> data["boot_drives"],
     erasure_coding |-> ErasureCoding,
     size_categories |-> {"small", "medium", "large"}]

\* json.dump and json.load: a key of an object is written as a string, so a
\* vendor or model key that is NaN is read back as the string 'NaN'
JsonKey(v) == IF v.t = "nan" THEN Str(<<"N", "a", "N">>) ELSE Str(PyStr(v))

JsonKeys(obj) ==
    [k \in {JsonKey(v) : v \in DOMAIN obj} |->
        obj[CHOOSE v \in DOMAIN obj : JsonKey(v) = k]]

Json(hardware_specs) ==
    LET vendors == hardware_specs.vendors
    IN  [hardware_specs EXCEPT
            !.vendors = JsonKeys([v \in DOMAIN vendors |->
                            [vendors[v] EXCEPT !.chassis = JsonKeys(vendors[v].chassis)]])]

---------------------------------------------------------------------------
(* validate_data.py.  A finding is a record; the lists of errors and of     *)
(* warnings are the sets of their findings, which are distinct by their     *)
(* check, record index, field and key.                                      *)

Finding(check, kind, idx, field, key) ==
    [check |-> check, kind |-> kind, idx |-> idx, field |-> field, key |-> key]

\* data.get(key, default)
DocGet(data, key, default) == IF key \in DOMAIN data THEN data[key] ELSE default

\* v > k, v <= k of a JSON value: TypeError for null and for a string
Incomparable(v) == v.t \in {"none", "str"}

required_keys == {"metadata", "vendors", "storage_drives", "cpus", "memory", "erasure_coding"}
metadata_keys == {"version", "generated", "description"}

StructureErrors(data) ==
    {Finding("structure", "missing_key", 0, key, <<>>) : key \in required_keys \ DOMAIN data}

StructureWarnings(data) ==
    IF "metadata" \in DOMAIN data
    THEN {Finding("structure", "missing_metadata", 0, key, <<>>) :
            key \in metadata_keys \ data["metadata"]}
    ELSE {}

VendorErrors(vendors_data) ==
    IF DOMAIN vendors_data = {} THEN {Finding("vendors", "no_vendors", 0, "", <<>>)}
    ELSE {Finding("vendors", "missing_chassis", 0, "", v.s) :
            v \in {w \in DOMAIN vendors_data : "chassis" \notin DOMAIN vendors_data[w]}}

VendorWarnings(vendors_data) ==
    LET with == {w \in DOMAIN vendors_data : "chassis" \in DOMAIN vendors_data[w]}
    IN  {Finding("vendors", "missing_supported_sizes", 0, "", v.s) :
            v \in {w \in with : "supported_sizes" \notin DOMAIN vendors_data[w]}}
        \cup {Finding("vendors", "no_chassis_models", 0, "", v.s) :
            v \in {w \in with : DOMAIN vendors_data[w].chassis = {}}}

\* field not in record or record[field] is None
Missing(record, field) == field \notin DOMAIN record \/ record[field].t = "none"

drive_required_fields == {"vendor", "model", "capacity_tb", "seq_read_mbps", "power_active_w"}
cpu_required_fields == {"vendor", "model", "cores"}

\* record.get(field, 0) compared with a number raises TypeError
GetRaises(record, field) == field \in DOMAIN record /\ Incomparable(record[field])

\* record.get(field, 0) > k
GetOver(record, field, k) ==
    field \in DOMAIN record /\ record[field].t = "num" /\ record[field].n > k

DriveRaises(drive) ==
    GetRaises(drive, "preferred") \/ GetRaises(drive, "capacity_tb")
        \/ GetRaises(drive, "seq_read_mbps")

StorageCrashes(drives_data) == \E i \in 1..Len(drives_data) : DriveRaises(drives_data[i])

StorageErrors(drives_data) ==
    IF drives_data = <<>> THEN {Finding("storage_drives", "no_drives", 0, "", <<>>)}
    ELSE {Finding("storage_drives", "missing_field", p[1], p[2], <<>>) :
            p \in {q \in (1..Len(drives_data)) \X drive_required_fields :
                        Missing(drives_data[q[1]], q[2])}}

\* capacities are in thousandths of a terabyte
StorageWarnings(drives_data) ==
    {Finding("storage_drives", "high_capacity", i, "", <<>>) :
        i \in {j \in 1..Len(drives_data) : GetOver(drives_data[j], "capacity_tb", 100 * 1000)}}
    \cup {Finding("storage_drives", "high_read_speed", i, "", <<>>) :
        i \in {j \in 1..Len(drives_data) : GetOver(drives_data[j], "seq_read_mbps", 10000)}}

\* cores = cpu.get('cores', 0); cores and cores > 128
CpuRaises(cpu) ==
    GetRaises(cpu, "preferred")
        \/ ("cores" \in DOMAIN cpu /\ cpu["cores"].t = "str" /\ Truthy(cpu["cores"]))

CpuCrashes(cpus_data) == \E i \in 1..Len(cpus_data) : CpuRaises(cpus_data[i])

CpuErrors(cpus_data) ==
    IF cpus_data = <<>> THEN {Finding("cpus", "no_cpus", 0, "", <<>>)}
    ELSE {Finding("cpus", "missing_field", p[1], p[2], <<>>) :
            p \in {q \in (1..Len(cpus_data)) \X cpu_required_fields :
                        Missing(cpus_data[q[1]], q[2])}}

CpuWarnings(cpus_data) ==
    {Finding("cpus", "high_core_count", i, "", <<>>) :
        i \in {j \in 1..Len(cpus_data) : GetOver(cpus_data[j], "cores", 128)}}

required_schemes == {EC83, EC82, EC84}

NoSchemes(ec_data) == "schemes" \notin DOMAIN ec_data

\* a check of every scheme of the catalog
AllSchemes(schemes) == DOMAIN schemes

\* the schemes whose efficiency validate_erasure_coding recomputes
CheckedSchemes(schemes) == required_schemes \cap DOMAIN schemes

\* abs(data_blocks / (data_blocks + parity_blocks) - efficiency) > 0.001,
\* efficiency being 0 when the scheme stores none
Mismatch(scheme) ==
    LET d == scheme.data_blocks
        total == scheme.data_blocks + scheme.parity_blocks
        actual == IF "efficiency" \in DOMAIN scheme THEN scheme.efficiency
                  ELSE [num |-> 0, den |-> 1]
        diff == d * actual.den - actual.num * total
        abs == IF diff < 0 THEN 0 - diff ELSE diff
    IN  1000 * abs > total * actual.den

\* ZeroDivisionError of data_blocks / (data_blocks + parity_blocks)
SchemeRaises(scheme) == scheme.data_blocks + scheme.parity_blocks = 0

EcCrashes(ec_data) ==
    ~NoSchemes(ec_data)
        /\ \E name \in CheckedSchemes(ec_data.schemes) : SchemeRaises(ec_data.schemes[name])

EcErrors(ec_data) ==
    IF NoSchemes(ec_data) THEN {Finding("erasure_coding", "no_schemes", 0, "", <<>>)}
    ELSE {Finding("erasure_coding", "efficiency_mismatch", 0, name, <<>>) :
            name \in {s \in CheckedSchemes(ec_data.schemes) :
                        ~SchemeRaises(ec_data.schemes[s]) /\ Mismatch(ec_data.schemes[s])}}

EcWarnings(ec_data) ==
    IF NoSchemes(ec_data) THEN {}
    ELSE {Finding("erasure_coding", "missing_scheme", 0, name, <<>>) :
            name \in required_schemes \ DOMAIN ec_data.schemes}

\* d.get('preferred', 0) <= 2
Preferred(record) ==
    "preferred" \notin DOMAIN record
        \/ (record["preferred"].t = "num" /\ record["preferred"].n <= 2)

PreferredCount(records) == Cardinality({i \in 1..Len(records) : Preferred(records[i])})

ConsistencyWarnings(data) ==
    LET drives == DocGet(data, "storage_drives", <<>>)
        cpus == DocGet(data, "cpus", <<>>)
        all_vendors == DOMAIN DocGet(data, "vendors", <<>>)
        drive_vendors == {drives[i]["vendor"] :
                            i \in {j \in 1..Len(drives) :
                                "vendor" \in DOMAIN drives[j] /\ Truthy(drives[j]["vendor"])}}
    IN  (IF drive_vendors \ all_vendors # {}
         THEN {Finding("consistency", "drive_vendors", 0, "", <<>>)} ELSE {})
        \cup (IF PreferredCount(drives) < 3
              THEN {Finding("consistency", "few_preferred_drives", 0, "", <<>>)} ELSE {})
        \cup (IF PreferredCount(cpus) < 2
              THEN {Finding("consistency", "few_preferred_cpus", 0, "", <<>>)} ELSE {})

\* check_file_sizes looks at public/data/hardware_specs.json only
FileWarnings(public) ==
    IF ~public.exists THEN {Finding("file_sizes", "not_found", 0, "", <<>>)}
    ELSE IF public.size = "large" THEN {Finding("file_sizes", "large", 0, "", <<>>)}
    ELSE IF public.size = "small" THEN {Finding("file_sizes", "small", 0, "", <<>>)}
    ELSE {}

\* the checks of main, in the order main runs them
Checks ==
    <<"structure", "vendors", "storage_drives", "cpus", "erasure_coding",
      "consistency", "file_sizes">>

\* the check raises an exception, which nothing in main catches
CheckCrashes(data, check) ==
    CASE check = "storage_drives" -> StorageCrashes(DocGet(data, "storage_drives", <<>>))
      [] check = "cpus" -> CpuCrashes(DocGet(data, "cpus", <<>>))
      [] check = "erasure_coding" -> EcCrashes(DocGet(data, "erasure_coding", <<>>))
      [] OTHER -> FALSE

CheckErrors(data, check) ==
    CASE check = "structure" -> StructureErrors(data)
      [] check = "vendors" -> VendorErrors(DocGet(data, "vendors", <<>>))
      [] check = "storage_drives" -> StorageErrors(DocGet(data, "storage_drives", <<>>))
      [] check = "cpus" -> CpuErrors(DocGet(data, "cpus", <<>>))
      [] check = "erasure_coding" -> EcErrors(DocGet(data, "erasure_coding", <<>>))
      [] OTHER -> {}

CheckWarnings(data, public, check) ==
    CASE check = "structure" -> StructureWarnings(data)
      [] check = "vendors" -> VendorWarnings(DocGet(data, "vendors", <<>>))
      [] check = "storage_drives" -> StorageWarnings(DocGet(data, "storage_drives", <<>>))
      [] check = "cpus" -> CpuWarnings(DocGet(data, "cpus", <<>>))
      [] check = "erasure_coding" -> EcWarnings(DocGet(data, "erasure_coding", <<>>))
      [] check = "consistency" -> ConsistencyWarnings(data)
      [] check = "file_sizes" -> FileWarnings(public)

\* the checks that return to main: those before the first one that raises
Completed(data) ==
    {Checks[i] : i \in {j \in 1..Len(Checks) :
                            \A k \in 1..j : ~CheckCrashes(data, Checks[k])}}

Idle == [ran |-> FALSE, outcome |-> "none", source |-> "none", checks |-> {},
         errors |-> {}, warnings |-> {}, returned |-> "none", exit |-> 0]

\* success = main(); exit(0 if success else 1): main returns None on its two
\* early returns, and an uncaught exception ends the process with status 1
ExitOfSuccess(returned) == IF returned = "True" THEN 1 ELSE 0
ExitCode(returned) == IF returned = "True" THEN 0 ELSE 1

Ended(outcome, source, returned) ==
    [Idle EXCEPT !.ran = TRUE, !.outcome = outcome, !.source = source,
                 !.returned = returned, !.exit = ExitCode(returned)]

\* main after the document is loaded: the checks in their order, then the
\* report and return len(all_errors) == 0, unless a check raises
RunChecks(data, public, source, done) ==
    LET errors == UNION {CheckErrors(data, c) : c \in done}
        warnings == UNION {CheckWarnings(data, public, c) : c \in done}
        reported == Cardinality(done) = Len(Checks)
        returned == IF ~reported THEN "raise" ELSE IF errors = {} THEN "True" ELSE "False"
    IN  [ran |-> TRUE, outcome |-> IF reported THEN "report" ELSE "crashed",
         source |-> source, checks |-> done, errors |-> errors, warnings |-> warnings,
         returned |-> returned, exit |-> ExitCode(returned)]

\* a main that looks in data/ first and in public/data/ after
ValidatorResultDataFirst(public, data_file) ==
    LET source == IF data_file.exists THEN "data" ELSE "public"
        file == IF data_file.exists THEN data_file ELSE public
    IN  IF ~file.exists THEN Ended("not_found", "none", "None")
        ELSE IF ~file.parses THEN Ended("unparsable", source, "None")
        ELSE RunChecks(file.doc, public, source, Completed(file.doc))

\* main of validate_data.py with the exit of the script
ValidatorResult(public, data_file) ==
    LET source == IF public.exists THEN "public" ELSE "data"
        file == IF public.exists THEN public ELSE data_file
    IN  IF ~file.exists THEN Ended("not_found", "none", "None")
        ELSE IF ~file.parses THEN Ended("unparsable", source, "None")
        ELSE RunChecks(file.doc, public, source, Completed(file.doc))

ValidatorMain ==
    /\ val' = ValidatorResult(docPublic, docData)
    /\ UNCHANGED <<workbook, csv, docData, docPublic, ext>>

---------------------------------------------------------------------------
(* main of convert_to_json.py *)

NoDocument == [exists |-> FALSE, parses |-> FALSE, doc |-> <<>>]
NoPublic == [exists |-> FALSE, parses |-> FALSE, doc |-> <<>>, size |-> "small"]

NotRun == [ran |-> FALSE, found |-> FALSE, sheets |-> <<>>, outcome |-> "none",
           before |-> <<>>, after |-> <<>>]

Disk(c, d, p) == [csv |-> c, docData |-> d, docPublic |-> p]

\* steps 2 to 4 of main: the consolidated document is written only when
\* create_hardware_json returns
ProcessAndSave(written, data, document) ==
    IF Raises(data)
    THEN [csv |-> written, docData |-> document, outcome |-> "raised"]
    ELSE [csv |-> written,
          docData |-> [exists |-> TRUE, parses |-> TRUE,
                       doc |-> Json(create_hardware_json(data))],
          outcome |-> "written"]

LoadAndSave(written, document) == ProcessAndSave(written, load_csv_data(written), document)

\* a main that goes on without the workbook
ExtractorFilesNoCheck(book, files, document) ==
    LoadAndSave(convert_excel_to_csv(book.sheets, files), document)

\* the files on disk when main ends: nothing changes without the workbook; the
\* tabular files are written before the data are processed
ExtractorFiles(book, files, document) ==
    IF ~book.exists THEN [csv |-> files, docData |-> document, outcome |-> "no_workbook"]
    ELSE LoadAndSave(convert_excel_to_csv(book.sheets, files), document)

ExtractorMain ==
    \E end \in {ExtractorFiles(workbook, csv, docData)} :
        /\ csv' = end.csv
        /\ docData' = end.docData
        /\ ext' = [ran |-> TRUE, found |-> workbook.exists, sheets |-> workbook.sheets,
                   outcome |-> end.outcome,
                   before |-> Disk(csv, docData, docPublic),
                   after |-> Disk(end.csv, end.docData, docPublic)]
        /\ val' = Idle
        /\ UNCHANGED <<workbook, docPublic>>

---------------------------------------------------------------------------
(* The workbooks *)

A == Str(<<"A">>)
M == Str(<<"M">>)
N == Str(<<"N">>)
Text1TB == Str(<<"1", "T", "B">>)
Text2GB == Str(<<"2", "G", "B">>)
TextXTB == Str(<<"x", "T", "B">>)
Text8GB == Str(<<"8", "G", "B">>)
TextXGB == Str(<<"x", "G", "B">>)
Text2W1 == Str(<<"2", "/", "1">>)
TextXW1 == Str(<<"x", "/", "1">>)
U4 == Str(<<"4", "U">>)
X == Str(<<"x">>)

ChassisRow(v, m, f, b) ==
    ("Vendor" :> v) @@ ("Model" :> m) @@ ("Form Factor" :> f) @@ ("Drive Bay" :> b)

\* a chassis row of a sheet that lost its header row
ColumnRow(v, m, f, b) ==
    ("Column_1" :> v) @@ ("Column_2" :> m) @@ ("Column_5" :> f) @@ ("Column_6" :> b)

StorageRow(v, m, cap, seq, power, pref) ==
    ("Vendor" :> v) @@ ("Model" :> m) @@ ("Capacity" :> cap)
        @@ ("Seq Read 128K (MB/s)" :> seq) @@ ("Power Active / Idle (W)" :> power)
        @@ ("Preferred" :> pref)

CpuRow(v, m, cores, pref) ==
    ("Vendor" :> v) @@ ("Model" :> m) @@ ("Cores" :> cores) @@ ("Preferred" :> pref)

MemoryRow(v, m, size, pref) ==
    ("Vendor" :> v) @@ ("Model" :> m) @@ ("Size" :> size) @@ ("Preferred" :> pref)

BootRow(v, m) == ("Vendor" :> v) @@ ("Model" :> m)

SheetNames == {SheetOf(cat) : cat \in Categories}

\* one complete record on every sheet
BaseSheets ==
    [name \in SheetNames |->
        CASE name = "Chassis" -> <<ChassisRow(A, M, U1, Num(8))>>
          [] name = "CPUs" -> <<CpuRow(A, M, Num(8), Num(1))>>
          [] name = "Memory" -> <<MemoryRow(A, M, Text8GB, Num(1))>>
          [] name = "StorageDrive" -> <<StorageRow(A, M, Text1TB, Num(5), Text2W1, Num(1))>>
          [] name = "BootDrive" -> <<BootRow(A, M)>>]

\* another record on every sheet
OtherSheets ==
    [name \in SheetNames |->
        CASE name = "Chassis" -> <<ChassisRow(A, N, U2, Num(24))>>
          [] name = "CPUs" -> <<CpuRow(A, N, Num(4), Num(2))>>
          [] name = "Memory" -> <<MemoryRow(A, N, Text8GB, Num(2))>>
          [] name = "StorageDrive" -> <<StorageRow(A, N, Text2GB, Num(5), Text2W1, Num(2))>>
          [] name = "BootDrive" -> <<BootRow(A, N)>>]

\* a sheet that holds blank rows only
BlankSheet(name) == [i \in 1..1 |-> [c \in Columns(BaseSheets[name]) |-> NaN]]

Restrict(f, S) == [x \in S |-> f[x]]

Book(sheets) == [exists |-> TRUE, sheets |-> sheets]

NoBook == [exists |-> FALSE, sheets |-> <<>>]

\* the workbooks of successive runs: no file, no sheet, every sheet, and every
\* sheet but one that is absent, blank or holds another record
Workbooks ==
    {NoBook, Book(BaseSheets), Book(Restrict(BaseSheets, {}))}
        \cup {Book(Restrict(BaseSheets, SheetNames \ {name})) : name \in SheetNames}
        \cup {Book([BaseSheets EXCEPT ![name] = BlankSheet(name)]) : name \in SheetNames}
        \cup {Book([BaseSheets EXCEPT ![name] = OtherSheets[name]]) : name \in SheetNames}

Cells(name, column) ==
    CASE column \in {"Vendor", "Column_1"} -> {NaN, A}
      [] column \in {"Model", "Column_2"} -> {NaN, M}
      [] column = "Preferred" -> {NaN, Num(0), Num(1), X}
      [] column = "Form Factor" -> {U1, U2, U4}
      [] column = "Drive Bay" -> {NaN, Num(0), Num(8), Num(16), Num(24), X}
      [] column = "Cores" -> {NaN, Num(4), Num(8), X}
      [] column = "Size" -> {NaN, Text8GB, TextXGB}
      [] column = "Capacity" -> {NaN, Text1TB, Text2GB, TextXTB}
      [] column = "Seq Read 128K (MB/s)" -> {NaN, Num(5), X}
      [] column = "Power Active / Idle (W)" -> {NaN, Text2W1, TextXW1}

\* the two columns that vary together in the rows of a sheet
Varied(name) ==
    CASE name = "Chassis" -> <<"Form Factor", "Drive Bay">>
      [] name = "CPUs" -> <<"Cores", "Preferred">>
      [] name = "Memory" -> <<"Size", "Preferred">>
      [] name = "StorageDrive" -> <<"Capacity", "Preferred">>
      [] name = "BootDrive" -> <<"Vendor", "Model">>

Vary(name, row, c1, c2) ==
    {[row EXCEPT ![c1] = x, ![c2] = y] : x \in Cells(name, c1), y \in Cells(name, c2)}

\* the rows of a sheet: the complete record with other cells in its two varied
\* columns, in its vendor and model, or in any one column
Rows(name) ==
    LET base == BaseSheets[name][1]
    IN  Vary(name, base, Varied(name)[1], Varied(name)[2])
            \cup Vary(name, base, "Vendor", "Model")
            \cup UNION {Vary(name, base, c, c) : c \in DOMAIN base}

\* one complete row followed by m rows that lack one field
PadSheet(name, column, m) ==
    [i \in 1..(m + 1) |->
        IF i = 1 THEN BaseSheets[name][1] ELSE [BaseSheets[name][1] EXCEPT ![column] = NaN]]

\* a chassis sheet without its header row
ColumnSheets ==
    {<<ColumnRow(A, M, f, b)>> : f \in {U1, U2}, b \in {NaN, Num(0), Num(24)}}

\* the complete record of a sheet under each preference rank: blank, 0, 1
RankedRows(name) == {[BaseSheets[name][1] EXCEPT !["Preferred"] = r] : r \in {NaN, Num(0), Num(1)}}

\* the sheets that feed the three sorted lists
RankedSheets == {"CPUs", "Memory", "StorageDrive"}

\* the workbook of a single run: every sheet holds its complete record, but
\* one sheet, which holds up to MaxRows rows, or a complete row and rows that
\* lack one field, or is a chassis sheet without its header row, or holds
\* MaxRanked rows that differ in their preference rank
SingleRunWorkbook(book) ==
    \E name \in SheetNames :
        \/ \E k \in 0..MaxRows : \E sheet \in [1..k -> Rows(name)] :
                book = Book([BaseSheets EXCEPT ![name] = sheet])
        \/ \E c \in Columns(BaseSheets[name]) : \E m \in 0..MaxPad :
                book = Book([BaseSheets EXCEPT ![name] = PadSheet(name, c, m)])
        \/ /\ name = "Chassis"
           /\ \E sheet \in ColumnSheets : book = Book([BaseSheets EXCEPT ![name] = sheet])
        \/ /\ name \in RankedSheets
           /\ \E sheet \in [1..MaxRanked -> RankedRows(name)] :
                    book = Book([BaseSheets EXCEPT ![name] = sheet])

---------------------------------------------------------------------------
(* The documents that the Validator is run on *)

NoFiles == [cat \in Categories |-> NoFile]

\* the document of a run on the base workbook
GoodDoc == ExtractorFiles(Book(BaseSheets), NoFiles, NoDocument).docData.doc

Document(doc) == [exists |-> TRUE, parses |-> TRUE, doc |-> doc]

\* a file that is no JSON text
Garbage == [exists |-> TRUE, parses |-> FALSE, doc |-> <<>>]

Without(record, field) == Restrict(record, DOMAIN record \ {field})

\* the record with the field as it is, null, or not there
With(record, field, how) ==
    CASE how = "ok" -> record
      [] how = "null" -> [record EXCEPT ![field] = None]
      [] how = "absent" -> Without(record, field)

Hows == {"ok", "null", "absent"}

DriveVariants ==
    LET drive == GoodDoc.storage_drives[1]
    IN  {With(With(With(drive, "vendor", a), "capacity_tb", b), "seq_read_mbps", c) :
            a \in Hows, b \in Hows, c \in Hows}
        \cup {With(drive, "preferred", a) : a \in Hows}
        \cup {[drive EXCEPT !.capacity_tb = Num(200 * 1000)],
              [drive EXCEPT !.seq_read_mbps = Num(20000)],
              [drive EXCEPT !.seq_read_mbps = NaN],
              [drive EXCEPT !.preferred = Num(3)]}

CpuVariants ==
    LET cpu == GoodDoc.cpus[1]
    IN  {With(With(cpu, "model", a), "cores", b) : a \in Hows, b \in Hows}
        \cup {With(cpu, "preferred", a) : a \in Hows}
        \cup {[cpu EXCEPT !.cores = Num(256)], [cpu EXCEPT !.cores = M],
              [cpu EXCEPT !.preferred = Num(3)]}

VendorVariants ==
    LET vendor == GoodDoc.vendors[A]
    IN  {<<>>, (A :> vendor), (A :> Without(vendor, "chassis")),
         (A :> Without(vendor, "supported_sizes")), (A :> [vendor EXCEPT !.chassis = <<>>]),
         (A :> vendor) @@ (M :> Without(vendor, "chassis"))}

EC42 == "EC 4:2"

SchemeNames == required_schemes \cup {EC42}

Blocks(name) ==
    CASE name = EC83 -> <<8, 3>> [] name = EC82 -> <<8, 2>> [] name = EC84 -> <<8, 4>>
      [] name = EC42 -> <<4, 2>>

\* the scheme of a name as the Extractor writes it ("exact"), with an
\* efficiency 1/2000 or 1/500 above the ratio of its blocks ("near", "off"),
\* without an efficiency ("none"), or with no block at all ("zero")
SchemeVariant(name, how) ==
    LET d == Blocks(name)[1]
        total == Blocks(name)[1] + Blocks(name)[2]
        scheme == Scheme(d, Blocks(name)[2])
    IN  CASE how = "exact" -> scheme
          [] how = "near" ->
                [scheme EXCEPT !.efficiency = [num |-> 2000 * d + total, den |-> 2000 * total]]
          [] how = "off" ->
                [scheme EXCEPT !.efficiency = [num |-> 500 * d + total, den |-> 500 * total]]
          [] how = "none" -> Without(scheme, "efficiency")
          [] how = "zero" -> [scheme EXCEPT !.data_blocks = 0, !.parity_blocks = 0]

SchemeHows == {"exact", "near", "off", "none", "zero"}

Catalogs ==
    {Without(GoodDoc.erasure_coding, "schemes")}
        \cup {[GoodDoc.erasure_coding EXCEPT
                    !.schemes = [name \in DOMAIN how |-> SchemeVariant(name, how[name])]] :
                how \in UNION {[names -> SchemeHows] : names \in SUBSET SchemeNames}}

\* the documents: the good one with one part of it replaced or removed
DocumentFile(file) ==
    \/ \E key \in DOMAIN GoodDoc : file = Document(Without(GoodDoc, key))
    \/ \E keys \in SUBSET metadata_keys : file = Document([GoodDoc EXCEPT !.metadata = keys])
    \/ \E v \in VendorVariants : file = Document([GoodDoc EXCEPT !.vendors = v])
    \/ \E k \in 0..MaxRecords : \E s \in [1..k -> DriveVariants] :
            file = Document([GoodDoc EXCEPT !.storage_drives = s])
    \/ \E k \in 0..MaxRecords : \E s \in [1..k -> CpuVariants] :
            file = Document([GoodDoc EXCEPT !.cpus = s])
    \/ \E c \in Catalogs : \E how \in {"ok", "null"} :
            file = Document([GoodDoc EXCEPT
                                !.erasure_coding = c,
                                !.storage_drives = <<With(@[1], "capacity_tb", how)>>])

Published(file, size) ==
    [exists |-> TRUE, parses |-> file.parses, doc |-> file.doc, size |-> size]

Sizes == {"small", "ok", "large"}

PublicFiles ==
    {NoPublic}
        \cup {Published(f, size) :
                f \in {Garbage, Document(GoodDoc), Document(Without(GoodDoc, "cpus"))},
                size \in Sizes}

---------------------------------------------------------------------------
(* Specifications *)

\* an operator edits, replaces or removes the workbook between two runs
ChangeWorkbook ==
    /\ workbook' \in Workbooks \ {workbook}
    /\ UNCHANGED <<csv, docData, docPublic, ext, val>>

\* successive runs of the two scripts in a directory that starts empty
Init ==
    /\ workbook \in Workbooks
    /\ csv = NoFiles
    /\ docData = NoDocument
    /\ docPublic = NoPublic
    /\ ext = NotRun
    /\ val = Idle

Next == ChangeWorkbook \/ ExtractorMain \/ ValidatorMain

Spec == Init /\ [][Next]_vars

\* one run of the Extractor in an empty directory, then the Validator
InitSingleRun ==
    /\ SingleRunWorkbook(workbook)
    /\ csv = NoFiles
    /\ docData = NoDocument
    /\ docPublic = NoPublic
    /\ ext = NotRun
    /\ val = Idle

ExtractOnce == ~ext.ran /\ ExtractorMain

ValidateAfter == ext.ran /\ ValidatorMain

NextSingleRun == ExtractOnce \/ ValidateAfter

SpecSingleRun == InitSingleRun /\ [][NextSingleRun]_vars

\* one run of the Validator on the files it finds: any document in data/ and
\* none in public/, or one of a few files in each
InitValidate ==
    /\ workbook = NoBook
    /\ csv = NoFiles
    /\ \/ DocumentFile(docData) /\ docPublic = NoPublic
       \/ docData \in {NoDocument, Garbage, Document(GoodDoc)} /\ docPublic \in PublicFiles
    /\ ext = NotRun
    /\ val = Idle

NextValidate == ValidatorMain

SpecValidate == InitValidate /\ [][NextValidate]_vars

\* public/data/hardware_specs.json is written by neither script: somebody
\* removes it, puts a file there, or copies the document of data/ to it
ChangePublic ==
    /\ docPublic' \in (PublicFiles
                            \cup (IF docData.exists THEN {Published(docData, "small")} ELSE {}))
                        \ {docPublic}
    /\ val' = Idle
    /\ UNCHANGED <<workbook, csv, docData, ext>>

\* one run of the Extractor and runs of the Validator in a directory whose
\* public/data/ may hold a document, which changes between the runs
InitPublished ==
    /\ workbook \in Workbooks
    /\ csv = NoFiles
    /\ docData = NoDocument
    /\ docPublic \in PublicFiles
    /\ ext = NotRun
    /\ val = Idle

NextPublished == ExtractOnce \/ ChangePublic \/ ValidatorMain

SpecPublished == InitPublished /\ [][NextPublished]_vars

---------------------------------------------------------------------------
(* Properties *)

AllChecks == {Checks[i] : i \in 1..Len(Checks)}

\* the document that the Validator run loaded
Loaded == IF val.source = "public" THEN docPublic.doc ELSE docData.doc

\* C1, as claimed: the exit code of a Validator run is 0 if and only if its
\* list of errors is empty.
C1_ExitIffNoErrors == val.ran => (val.exit = 0 <=> val.errors = {})

\* C1, amended: the exit code of a Validator run is 0 if and only if the run
\* reaches its report with an empty list of errors, whatever its warnings; a
\* run that stops before the report exits 1 with no error in its list.
C1_ExitCode ==
    val.ran =>
        /\ val.exit \in {0, 1}
        /\ val.exit = 0 <=> (val.outcome = "report" /\ val.errors = {})
        /\ val.outcome \in {"not_found", "unparsable"} => val.errors = {} /\ val.exit = 1

C1_Witness ==
    val.ran /\ val.outcome = "report" /\ val.errors = {} /\ val.warnings # {} /\ val.exit = 0

\* the catalog of the loaded document, when the run reached its report
Catalog == Loaded["erasure_coding"].schemes

HasCatalog ==
    /\ val.outcome = "report"
    /\ "erasure_coding" \in DOMAIN Loaded
    /\ "schemes" \in DOMAIN Loaded["erasure_coding"]

\* the schemes for which the claim is stated: an efficiency is stored and the
\* ratio of the blocks exists
Rated(scheme) ==
    "efficiency" \in DOMAIN scheme /\ scheme.data_blocks + scheme.parity_blocks > 0

\* |efficiency - data_blocks / (data_blocks + parity_blocks)| > 1/1000
Differs(scheme) ==
    LET total == scheme.data_blocks + scheme.parity_blocks
        e == scheme.efficiency
        lhs == 1000 * (scheme.data_blocks * e.den - e.num * total)
    IN  lhs > total * e.den \/ 0 - lhs > total * e.den

MismatchError(name) == Finding("erasure_coding", "efficiency_mismatch", 0, name, <<>>)

\* C8, as claimed: for every scheme of the catalog, whatever its name, the
\* Validator records an error if and only if the stored efficiency differs
\* from data_blocks / (data_blocks + parity_blocks) by more than 0.001.
C8_EveryScheme ==
    HasCatalog =>
        \A name \in DOMAIN Catalog :
            Rated(Catalog[name]) => (MismatchError(name) \in val.errors <=> Differs(Catalog[name]))

\* C8, amended: a Validator run that reaches its report records an efficiency
\* error for a scheme of the catalog if and only if the scheme is one of
\* "EC 8:3", "EC 8:2", "EC 8:4" and its stored efficiency differs from
\* data_blocks / (data_blocks + parity_blocks) by more than 0.001; a scheme
\* under any other name is not checked.
C8_NamedSchemes ==
    HasCatalog =>
        \A name \in DOMAIN Catalog :
            Rated(Catalog[name]) =>
                (MismatchError(name) \in val.errors
                    <=> (name \in {"EC 8:3", "EC 8:2", "EC 8:4"} /\ Differs(Catalog[name])))

C8_Witness ==
    /\ HasCatalog
    /\ {EC83, EC84, EC42} \subseteq DOMAIN Catalog
    /\ Rated(Catalog[EC83]) /\ Differs(Catalog[EC83]) /\ MismatchError(EC83) \in val.errors
    /\ Rated(Catalog[EC84]) /\ ~Differs(Catalog[EC84]) /\ MismatchError(EC84) \notin val.errors
    /\ Rated(Catalog[EC42]) /\ Differs(Catalog[EC42]) /\ MismatchError(EC42) \notin val.errors

\* the fields that the loaded document's record i of a list lacks
Lacking(list, i, fields) ==
    {f \in fields : f \notin DOMAIN Loaded[list][i] \/ Loaded[list][i][f] = None}

\* C9: a Validator run on a document that parses runs all seven checks and
\* reaches the report, with one error for every required field that is null
\* or absent in a storage-drive or CPU record.
C9_AllChecksRun ==
    (val.ran /\ val.outcome \notin {"not_found", "unparsable"}) =>
        /\ val.outcome = "report"
        /\ val.checks = AllChecks
        /\ "storage_drives" \in DOMAIN Loaded =>
                \A i \in 1..Len(Loaded["storage_drives"]) :
                    \A f \in Lacking("storage_drives", i, drive_required_fields) :
                        Finding("storage_drives", "missing_field", i, f, <<>>) \in val.errors
        /\ "cpus" \in DOMAIN Loaded =>
                \A i \in 1..Len(Loaded["cpus"]) :
                    \A f \in Lacking("cpus", i, cpu_required_fields) :
                        Finding("cpus", "missing_field", i, f, <<>>) \in val.errors

\* a storage drive without capacity_tb stops the run inside its check
C9_Witness ==
    /\ val.ran /\ val.outcome = "crashed" /\ "storage_drives" \notin val.checks
    /\ "storage_drives" \in DOMAIN Loaded
    /\ \E i \in 1..Len(Loaded["storage_drives"]) :
            /\ Lacking("storage_drives", i, drive_required_fields) = {"capacity_tb"}
            /\ "capacity_tb" \in DOMAIN Loaded["storage_drives"][i]
    /\ val.exit = 1

---------------------------------------------------------------------------
(* Properties of an Extractor run *)

\* the consolidated document that the last Extractor run wrote
Written == ext.after.docData.doc

\* the sheet of a category in the workbook that the last run read
Sheet(cat) == ext.sheets[SheetOf(cat)]

\* the cell of a row under a column holds a value
Has(row, column) == column \in DOMAIN row /\ ~IsNa(row[column])

HasBoth(row) ==
    /\ Has(row, "Vendor") \/ Has(row, "Column_1")
    /\ Has(row, "Model") \/ Has(row, "Column_2")

\* the columns behind the fields that the Validator requires of a record
RequiredColumns(name) ==
    CASE name = "Chassis" -> {"Vendor", "Model"}
      [] name = "CPUs" -> {"Vendor", "Model", "Cores"}
      [] name = "StorageDrive" ->
            {"Vendor", "Model", "Capacity", "Seq Read 128K (MB/s)", "Power Active / Idle (W)"}

ValidatedSheets == {"Chassis", "CPUs", "StorageDrive"}

\* each of the three sheets holds at least one record with vendor, model and
\* the required fields
WellFormed(sheets) ==
    \A name \in ValidatedSheets :
        /\ name \in DOMAIN sheets
        /\ \E i \in 1..Len(sheets[name]) :
                \A c \in RequiredColumns(name) : Has(sheets[name][i], c)

Blanks(sheet, c) == Cardinality({i \in 1..Len(sheet) : ~Has(sheet[i], c)})

\* no required column of the three sheets is blank in 90% or more of its rows
ColumnsFilled(sheets) ==
    \A name \in ValidatedSheets :
        \A c \in RequiredColumns(name) : 10 * Blanks(sheets[name], c) < 9 * Len(sheets[name])

\* the columns that the Validator compares with numbers
ComparedColumns(name) ==
    CASE name = "Chassis" -> {}
      [] name = "CPUs" -> {"Preferred"}
      [] name = "StorageDrive" -> {"Seq Read 128K (MB/s)", "Preferred"}

\* every cell of these columns is a number or blank
NumericCells(sheets) ==
    \A name \in ValidatedSheets :
        \A c \in ComparedColumns(name) :
            \A i \in 1..Len(sheets[name]) :
                c \in DOMAIN sheets[name][i] => sheets[name][i][c].t \in {"num", "nan"}

RoundTrip == ext.ran /\ ext.outcome = "written" /\ val.ran

C3_NoWorkbook ==
    (ext.ran /\ ~ext.found) => (ext.after = ext.before /\ ext.outcome = "no_workbook")

\* a run without the workbook in a directory that holds files of earlier runs
C3_Witness ==
    /\ ext.ran /\ ~ext.found /\ ext.outcome = "no_workbook"
    /\ ext.before.docData.exists
    /\ \E cat \in Categories : ext.before.csv[cat].exists

ClaimedSize(f, b) ==
    IF f = U1 /\ b <= 8 THEN "small"
    ELSE IF f = U2 \/ b >= 24 THEN "large"
    ELSE "medium"

\* the Chassis sheet holds one row, with vendor, model and a drive-bay count
OneChassis ==
    /\ Len(Sheet("chassis")) = 1
    /\ Has(Sheet("chassis")[1], "Vendor") /\ Has(Sheet("chassis")[1], "Model")
    /\ "Form Factor" \in DOMAIN Sheet("chassis")[1]
    /\ Has(Sheet("chassis")[1], "Drive Bay") /\ Sheet("chassis")[1]["Drive Bay"].t = "num"

\* C4: every chassis record of the document with form factor f and drive-bay
\* count b, 0 included, has size_category 'small' when f is '1U' and b <= 8,
\* otherwise 'large' when f is '2U' or b >= 24, otherwise 'medium'; f and b
\* are those of the record and, when the sheet holds one row, those of the row.
C4_SizeCategory ==
    (ext.ran /\ ext.outcome = "written") =>
        \A v \in DOMAIN Written.vendors :
            \A m \in DOMAIN Written.vendors[v].chassis :
                LET record == Written.vendors[v].chassis[m]
                IN  /\ record.drive_bays.t = "num" =>
                            record.size_category
                                = ClaimedSize(record.form_factor, record.drive_bays.n)
                    /\ OneChassis =>
                            record.size_category
                                = ClaimedSize(Sheet("chassis")[1]["Form Factor"],
                                              Sheet("chassis")[1]["Drive Bay"].n)

\* a chassis of form factor '1U' with 0 drive bays is written as 'medium'
C4_Witness ==
    /\ ext.ran /\ ext.outcome = "written" /\ OneChassis
    /\ Sheet("chassis")[1]["Form Factor"] = U1
    /\ Sheet("chassis")[1]["Drive Bay"] = Num(0)
    /\ \E v \in DOMAIN Written.vendors :
            \E m \in DOMAIN Written.vendors[v].chassis :
                Written.vendors[v].chassis[m].size_category = "medium"

Lists == {"storage_drives", "cpus", "memory"}

NaNKey == Str(<<"N", "a", "N">>)

\* C5: in every category of the document every record has a vendor and a
\* model, and there are no more records than rows of the sheet that have both.
C5_VendorAndModel ==
    (ext.ran /\ ext.outcome = "written") =>
        /\ \A cat \in Lists :
                /\ \A i \in 1..Len(Written[cat]) :
                        ~IsNa(Written[cat][i].vendor) /\ ~IsNa(Written[cat][i].model)
                /\ Len(Written[cat])
                        <= Cardinality({i \in 1..Len(Sheet(cat)) : HasBoth(Sheet(cat)[i])})
        /\ \A i \in 1..Len(Written["boot_drives"]) :
                Has(Written["boot_drives"][i], "Vendor") /\ Has(Written["boot_drives"][i], "Model")
        /\ \A v \in DOMAIN Written.vendors :
                /\ v # NaNKey
                /\ \A m \in DOMAIN Written.vendors[v].chassis :
                        m # NaNKey /\ ~IsNa(Written.vendors[v].chassis[m].model)

\* a storage row without vendor is written, and so is a boot drive without
C5_Witness ==
    /\ ext.ran /\ ext.outcome = "written"
    /\ \/ \E i \in 1..Len(Written.storage_drives) :
                /\ IsNa(Written.storage_drives[i].vendor)
                /\ \E j \in 1..Len(Sheet("storage_drives")) :
                        ~Has(Sheet("storage_drives")[j], "Vendor")
       \/ \E i \in 1..Len(Written.boot_drives) : ~Has(Written.boot_drives[i], "Vendor")

\* the columns of counts and ranks
NumberColumns == {"Drive Bay", "Column_6", "Cores", "Seq Read 128K (MB/s)", "Preferred"}

\* every cell of these columns, on every sheet, is a number or blank
WellTyped(sheets) ==
    \A name \in DOMAIN sheets :
        \A i \in 1..Len(sheets[name]) :
            \A c \in NumberColumns \cap DOMAIN sheets[name][i] :
                sheets[name][i][c].t \in {"num", "nan"}

\* the preference rank, unset mapped to 99
ClaimedRank(preferred) == IF preferred.t = "num" /\ preferred.n # 0 THEN preferred.n ELSE 99

\* a number, missing counted as 0
ClaimedNumber(x) == IF x.t = "num" THEN x.n ELSE 0

PairLeq(a, b) == a[1] < b[1] \/ (a[1] = b[1] /\ a[2] <= b[2])

NonDecreasing(keys) == \A i \in 1..(Len(keys) - 1) : PairLeq(keys[i], keys[i + 1])

\* C6: the storage drives of the document are non-decreasing under (rank with
\* unset as 99, capacity_tb), its CPUs under (rank with unset as 99, negated
\* core count with a missing count as 0); stated for the workbooks whose
\* ranks and counts are numbers or blank.
C6_SortedLists ==
    (ext.ran /\ ext.outcome = "written" /\ WellTyped(ext.sheets)) =>
        /\ NonDecreasing([i \in 1..Len(Written.storage_drives) |->
                <<ClaimedRank(Written.storage_drives[i].preferred),
                  ClaimedNumber(Written.storage_drives[i].capacity_tb)>>])
        /\ NonDecreasing([i \in 1..Len(Written.cpus) |->
                <<ClaimedRank(Written.cpus[i].preferred),
                  0 - ClaimedNumber(Written.cpus[i].cores)>>])

\* a drive without rank stays in front of a drive of rank 1
C6_Witness ==
    /\ ext.ran /\ ext.outcome = "written" /\ WellTyped(ext.sheets)
    /\ Len(Written.storage_drives) = 2
    /\ Written.storage_drives[1].preferred = NaN
    /\ Written.storage_drives[2].preferred = Num(1)
    /\ Written.storage_drives[1].capacity_tb = Written.storage_drives[2].capacity_tb

\* C7: whatever the capacity, power and size cells of the records, a run of
\* the Extractor that finds its workbook writes the consolidated document;
\* stated for the workbooks whose ranks and counts are numbers or blank.
C7_NeverAborts == (ext.ran /\ ext.found /\ WellTyped(ext.sheets)) => ext.outcome = "written"

\* the capacity 'xTB' ends the run after the tabular files and before the
\* document
C7_Witness ==
    /\ ext.ran /\ ext.found /\ WellTyped(ext.sheets) /\ ext.outcome = "raised"
    /\ \E i \in 1..Len(Sheet("storage_drives")) :
            Sheet("storage_drives")[i]["Capacity"] = TextXTB
    /\ ext.after.csv["storage_drives"].exists
    /\ ~ext.after.docData.exists

\* the categories that the workbook of the last run gives no record
Skipped(cat) ==
    SheetOf(cat) \notin DOMAIN ext.sheets \/ Empty(clean_data(ext.sheets[SheetOf(cat)]))

NoRecords(doc, cat) == IF cat = "chassis" THEN doc.vendors = <<>> ELSE doc[cat] = <<>>

\* C10: the document that a run writes holds no record of a category whose
\* sheet is absent from the workbook of that run or empty after cleaning,
\* whatever the earlier runs wrote.
C10_FreshDocument ==
    (ext.ran /\ ext.outcome = "written") =>
        \A cat \in Categories : Skipped(cat) => NoRecords(Written, cat)

\* the memory records of an earlier run are written again by a run on a
\* workbook without the Memory sheet
C10_Witness ==
    /\ ext.ran /\ ext.outcome = "written"
    /\ "Memory" \notin DOMAIN ext.sheets
    /\ "Chassis" \in DOMAIN ext.sheets
    /\ ext.before.csv["memory"].exists
    /\ Written.memory # <<>>

\* the preference ranks of a list of the document, in its order
Ranks(list) == [i \in 1..Len(Written[list]) |-> Written[list][i].preferred]

\* the positions of the records of a rank
Ranked(ranks, k) == {i \in 1..Len(ranks) : ranks[i] = Num(k)}

\* C11, as claimed: in the sorted storage-drive, CPU and memory lists of the
\* document every record whose preference rank is unset (0) stands before
\* every record whose preference rank is 1.
C11_UnsetFirst ==
    (ext.ran /\ ext.outcome = "written") =>
        \A list \in Lists :
            \A i \in Ranked(Ranks(list), 0) : \A j \in Ranked(Ranks(list), 1) : i < j

\* C11, amended: a rank of 0 is sorted as 99, that is as least preferred.  In
\* each of the three lists no record of rank 0 stands directly before a
\* record of rank 1, and when every rank of the list is a number every record
\* of rank 0 stands after every record of rank 1.
C11_UnsetLast ==
    (ext.ran /\ ext.outcome = "written") =>
        \A list \in Lists :
            /\ \A i \in Ranked(Ranks(list), 0) : (i + 1) \notin Ranked(Ranks(list), 1)
            /\ (\A i \in 1..Len(Ranks(list)) : Ranks(list)[i].t = "num") =>
                    \A i \in Ranked(Ranks(list), 0) :
                        \A j \in Ranked(Ranks(list), 1) : j < i

\* rows of rank 0, 1, 0 on the sheet are written as ranks 1, 0, 0
C11_Witness ==
    /\ ext.ran /\ ext.outcome = "written"
    /\ [i \in 1..Len(Sheet("storage_drives")) |-> Sheet("storage_drives")[i]["Preferred"]]
            = <<Num(0), Num(1), Num(0)>>
    /\ Ranks("storage_drives") = <<Num(1), Num(0), Num(0)>>

\* the Validator ran on the files that a successful Extractor run left
AfterExtractor == ext.ran /\ ext.outcome = "written" /\ val.ran

\* the warning of check_file_sizes that public/data/ holds no document
NotPublished == Finding("file_sizes", "not_found", 0, "", <<>>)

\* C12, as claimed: a Validator run after a successful Extractor run loads
\* and validates the document that the Extractor run wrote, whatever other
\* files are on disk.
C12_WrittenDocument ==
    AfterExtractor => (val.outcome \in {"report", "crashed"} /\ Loaded = Written)

\* C12, amended: a Validator run after a successful Extractor run loads and
\* validates the document that run wrote when public/data/hardware_specs.json
\* does not exist, and then warns that no document is published; when that
\* file exists the Validator loads it instead, and the run is the one it
\* would be without the document in data/.
C12_PublicFirst ==
    AfterExtractor =>
        /\ ~docPublic.exists =>
                /\ val.source = "data" /\ docData.doc = Written
                /\ val.outcome \in {"report", "crashed"}
                /\ val.outcome = "report" => NotPublished \in val.warnings
        /\ docPublic.exists =>
                /\ val.source = "public"
                /\ val = ValidatorResult(docPublic, NoDocument)

\* the Extractor wrote a document without CPUs next to a published document
\* that has them, and the Validator reports no error
C12_Witness ==
    /\ AfterExtractor /\ docPublic.exists /\ docPublic.parses
    /\ Written.cpus = <<>>
    /\ "cpus" \in DOMAIN docPublic.doc /\ docPublic.doc.cpus # <<>>
    /\ val.source = "public" /\ val.outcome = "report" /\ val.errors = {}

\* the three parts of a document that the Validator requires to hold records
RequiredParts == {"vendors", "storage_drives", "cpus"}

EmptyOrAbsent(doc, key) == key \notin DOMAIN doc \/ doc[key] = <<>>

\* the categories behind the three parts
RequiredCategories == {"chassis", "storage_drives", "cpus"}

\* C13: a Validator run on a document whose vendors map, storage_drives list
\* or cpus list is empty or absent records at least one error and exits 1;
\* hence the document of an Extractor run that skipped a missing or empty
\* Chassis, StorageDrive or CPUs sheet never passes validation.
C13_EmptyFails ==
    /\ (val.ran /\ val.outcome \in {"report", "crashed"}
            /\ \E key \in RequiredParts : EmptyOrAbsent(Loaded, key)) =>
                (val.errors # {} /\ val.exit = 1)
    /\ (AfterExtractor /\ \E cat \in RequiredCategories : Skipped(cat)) =>
                (val.errors # {} /\ val.exit = 1)

\* the run on a workbook without the Chassis sheet reloads the chassis file
\* of an earlier run, and its document passes validation
C13_Witness ==
    /\ AfterExtractor
    /\ "Chassis" \notin DOMAIN ext.sheets
    /\ ext.before.csv["chassis"].exists
    /\ Written.vendors # <<>>
    /\ val.outcome = "report" /\ val.errors = {} /\ val.exit = 0

====
